---------------------------- MODULE Spec2Model ----------------------------
(***************************************************************************)
(* Model of the grv config scanner (cmd/grv/config_scan.go).               *)
(*                                                                         *)
(* A ConfigScanner owns a bufio.Reader over the input stream and the       *)
(* position bookkeeping (pos, lastCharLineEnd, lastLineEndCol).  The only  *)
(* public operation is Scan, which returns one token per call.  Characters *)
(* are one-character strings, token values are sequences of characters.    *)
(* The buffered reader is modelled by its read offset and by lastRuneSize, *)
(* the field that decides whether UnreadRune is legal.                     *)
(***************************************************************************)
EXTENDS Integers, Sequences, FiniteSets, TLC

VARIABLES
    src,        \* the input stream: its characters and how it ends
    scanner,    \* the ConfigScanner object
    out,        \* history: the (token, err) pair returned by each Scan call
    offs        \* history: the reader offset when each Scan call returned

vars == <<src, scanner, out, offs>>

----------------------------------------------------------------------------
(* Bounds of the model *)

\* Longest input over the full alphabet.
MaxLen == 4

\* Number of Scan calls made once the reader has reached the end of the stream.
MaxTail == 2

\* No run makes more Scan calls than this.
ScanCap == 2 * (MaxLen + 2) + MaxTail

----------------------------------------------------------------------------
(* Characters *)

\* unicode.IsSpace, restricted to the characters of the model
IsSpace(c) == c \in {" ", "\t", "\n", "\r"}

\* Every token-deciding character of Scan, and one ordinary character.
FullAlphabet == {"a", " ", "\n", "\\", "\"", "-", "#", "!"}

\* Whitespace runs with line continuations, between words.
SpaceAlphabet == {"a", "b", " ", "\\", "\n"}

\* Quoted literals with escapes.
StringAlphabet == {"\"", "\\", "n", "t", "a"}

\* Line tokens (comments and shell commands) and options.
LineAlphabet == {"#", "@", "-", "x", "\n", "\t"}

SeqsUpTo(S, n) == UNION {[1..k -> S] : k \in 0..n}

Inputs ==
    SeqsUpTo(FullAlphabet, MaxLen)
        \cup SeqsUpTo(SpaceAlphabet, MaxLen + 1)
        \cup {<<"\"">> \o w : w \in SeqsUpTo(StringAlphabet, MaxLen + 1)}
        \cup SeqsUpTo(LineAlphabet, MaxLen)

\* How the underlying io.Reader ends: io.EOF, or a read failure.
EndErrs == {"EOF", "EIO"}

----------------------------------------------------------------------------
(* Tokens *)

Pos(l, c) == [line |-> l, col |-> c]

\* The zero value of ConfigScannerPos.
ZeroPos == Pos(0, 0)

\* A nil *ConfigToken.
NilToken ==
    [tokenType |-> "nil", value |-> <<>>, startPos |-> ZeroPos,
     endPos |-> ZeroPos, err |-> "nil"]

\* &ConfigToken{tokenType: .., value: .., endPos: ..}
Token(tokenType, value, endPos, err) ==
    [tokenType |-> tokenType, value |-> value, startPos |-> ZeroPos,
     endPos |-> endPos, err |-> err]

----------------------------------------------------------------------------
(* bufio.Reader, as the scanner uses it *)

\* bufio.NewReader(reader).  log is not a field of bufio.Reader: it records, in
\* order, the calls made on the reader and how each ended.
NewReader == [r |-> 0, lastRuneSize |-> -1, log |-> <<>>]

\* reader.ReadRune(): the next character, or the error the stream ends with.
ReadRune(rd) ==
    IF rd.r < Len(src.input)
    THEN [reader |-> [r |-> rd.r + 1, lastRuneSize |-> 1,
                      log |-> Append(rd.log, "ReadRune")],
          char |-> src.input[rd.r + 1], err |-> "nil"]
    ELSE [reader |-> [r |-> rd.r, lastRuneSize |-> -1,
                      log |-> Append(rd.log, "ReadRune:" \o src.endErr)],
          char |-> "", err |-> src.endErr]

\* reader.UnreadRune(): legal only right after a successful ReadRune.
UnreadRune(rd) ==
    IF rd.lastRuneSize < 0 \/ rd.r < rd.lastRuneSize
    THEN [reader |-> [rd EXCEPT !.log = Append(@, "UnreadRune:ErrInvalidUnreadRune")],
          err |-> "ErrInvalidUnreadRune"]
    ELSE [reader |-> [r |-> rd.r - rd.lastRuneSize, lastRuneSize |-> -1,
                      log |-> Append(rd.log, "UnreadRune")],
          err |-> "nil"]

\* reader.Peek(1): the next byte without consuming it; invalidates unreads.
Peek(rd) ==
    IF rd.r < Len(src.input)
    THEN [reader |-> [rd EXCEPT !.lastRuneSize = -1, !.log = Append(@, "Peek")],
          bytes |-> <<src.input[rd.r + 1]>>, err |-> "nil"]
    ELSE [reader |-> [rd EXCEPT !.lastRuneSize = -1,
                               !.log = Append(@, "Peek:" \o src.endErr)],
          bytes |-> <<>>, err |-> src.endErr]

\* len(nextBytes) == 1 && nextBytes[0] == '-'
IsDoubleDash(pk) == Len(pk.bytes) = 1 /\ pk.bytes[1] = "-"

\* The continuation test comparing with the letter n instead of the newline.
IsLineContinuation_LetterN(pk) == Len(pk.bytes) = 1 /\ pk.bytes[1] = "n"

\* len(nextBytes) == 1 && nextBytes[0] == '\n'
IsLineContinuation(pk) == Len(pk.bytes) = 1 /\ pk.bytes[1] = "\n"

----------------------------------------------------------------------------
(* The scanner object and its read/unread primitives *)

\* reads is not a field of ConfigScanner: it records the scanner as it was before
\* each read that returned a character.
NewConfigScanner ==
    [reader |-> NewReader, pos |-> Pos(1, 0),
     lastCharLineEnd |-> FALSE, lastLineEndCol |-> 0, reads |-> <<>>]

\* The scanner s without its records of past calls.
Snapshot(s) == [s EXCEPT !.reads = <<>>, !.reader.log = <<>>]

\* The scanner s with the reader as ReadRune left it (rr).
AfterReadRune(s, rr) ==
    [s EXCEPT !.reader = rr.reader,
              !.reads = IF rr.err = "nil" THEN Append(@, Snapshot(s)) ELSE @]

\* read that does not remember the column the previous line ended at.
read_ForgetsLineEndCol(s) ==
    LET rr == ReadRune(s.reader)
        s1 == AfterReadRune(s, rr)
    IN  IF rr.err = "EOF"
        THEN [s |-> IF s1.pos.col = 0 THEN [s1 EXCEPT !.pos.col = 1] ELSE s1,
              char |-> rr.char, eof |-> TRUE, err |-> "nil"]
        ELSE IF rr.err = "nil"
        THEN [s |-> IF s1.lastCharLineEnd
                    THEN [s1 EXCEPT !.pos = Pos(s1.pos.line + 1, 1),
                                    !.lastCharLineEnd = (rr.char = "\n")]
                    ELSE [s1 EXCEPT !.pos.col = s1.pos.col + 1,
                                    !.lastCharLineEnd = (rr.char = "\n")],
              char |-> rr.char, eof |-> FALSE, err |-> "nil"]
        ELSE [s |-> s1, char |-> rr.char, eof |-> FALSE, err |-> rr.err]

\* read that hands io.EOF on to its caller as an error.
read_EOFAsError(s) ==
    LET rr == ReadRune(s.reader)
        s1 == AfterReadRune(s, rr)
    IN  IF rr.err = "nil"
        THEN [s |-> IF s1.lastCharLineEnd
                    THEN [s1 EXCEPT !.lastLineEndCol = s1.pos.col,
                                    !.pos = Pos(s1.pos.line + 1, 1),
                                    !.lastCharLineEnd = (rr.char = "\n")]
                    ELSE [s1 EXCEPT !.pos.col = s1.pos.col + 1,
                                    !.lastCharLineEnd = (rr.char = "\n")],
              char |-> rr.char, eof |-> FALSE, err |-> "nil"]
        ELSE [s |-> s1, char |-> rr.char, eof |-> rr.err = "EOF", err |-> rr.err]

\* read that leaves the column at 0 when the stream is empty.
read_NoColumnFix(s) ==
    LET rr == ReadRune(s.reader)
        s1 == AfterReadRune(s, rr)
    IN  IF rr.err = "EOF"
        THEN [s |-> s1, char |-> rr.char, eof |-> TRUE, err |-> "nil"]
        ELSE IF rr.err = "nil"
        THEN [s |-> IF s1.lastCharLineEnd
                    THEN [s1 EXCEPT !.lastLineEndCol = s1.pos.col,
                                    !.pos = Pos(s1.pos.line + 1, 1),
                                    !.lastCharLineEnd = (rr.char = "\n")]
                    ELSE [s1 EXCEPT !.pos.col = s1.pos.col + 1,
                                    !.lastCharLineEnd = (rr.char = "\n")],
              char |-> rr.char, eof |-> FALSE, err |-> "nil"]
        ELSE [s |-> s1, char |-> rr.char, eof |-> FALSE, err |-> rr.err]

read(s) ==
    LET rr == ReadRune(s.reader)
        s1 == AfterReadRune(s, rr)
    IN  IF rr.err = "EOF"
        THEN [s |-> IF s1.pos.col = 0 THEN [s1 EXCEPT !.pos.col = 1] ELSE s1,
              char |-> rr.char, eof |-> TRUE, err |-> "nil"]
        ELSE IF rr.err = "nil"
        THEN [s |-> IF s1.lastCharLineEnd
                    THEN [s1 EXCEPT !.lastLineEndCol = s1.pos.col,
                                    !.pos = Pos(s1.pos.line + 1, 1),
                                    !.lastCharLineEnd = (rr.char = "\n")]
                    ELSE [s1 EXCEPT !.pos.col = s1.pos.col + 1,
                                    !.lastCharLineEnd = (rr.char = "\n")],
              char |-> rr.char, eof |-> FALSE, err |-> "nil"]
        ELSE [s |-> s1, char |-> rr.char, eof |-> FALSE, err |-> rr.err]

\* unread that goes back over a line boundary without setting lastCharLineEnd.
unread_ForgetsLineEnd(s) ==
    LET ur == UnreadRune(s.reader)
        s1 == [s EXCEPT !.reader = ur.reader]
    IN  IF ur.err # "nil"
        THEN [s |-> s1, err |-> ur.err]
        ELSE IF s1.pos.line > 1 /\ s1.pos.col = 1
        THEN [s |-> [s1 EXCEPT !.pos = Pos(s1.pos.line - 1, s1.lastLineEndCol),
                               !.lastCharLineEnd = FALSE],
              err |-> "nil"]
        ELSE [s |-> [s1 EXCEPT !.pos.col = s1.pos.col - 1,
                               !.lastCharLineEnd = FALSE],
              err |-> "nil"]

unread(s) ==
    LET ur == UnreadRune(s.reader)
        s1 == [s EXCEPT !.reader = ur.reader]
    IN  IF ur.err # "nil"
        THEN [s |-> s1, err |-> ur.err]
        ELSE IF s1.pos.line > 1 /\ s1.pos.col = 1
        THEN [s |-> [s1 EXCEPT !.pos = Pos(s1.pos.line - 1, s1.lastLineEndCol),
                               !.lastCharLineEnd = TRUE],
              err |-> "nil"]
        ELSE [s |-> [s1 EXCEPT !.pos.col = s1.pos.col - 1,
                               !.lastCharLineEnd = FALSE],
              err |-> "nil"]

\* What a scan function returns, with the scanner it leaves behind.
Ret(s, token, err) == [s |-> s, token |-> token, err |-> err]


----------------------------------------------------------------------------
(* Sub-scanners *)

RECURSIVE scanWhiteSpaceLoop(_, _, _)
scanWhiteSpaceLoop(s, buffer, escape) ==
    LET rd == read(s)
        done(s2) == Ret(s2, Token("CtkWhiteSpace", buffer, s2.pos, "nil"), "nil")
    IN  CASE rd.err # "nil" -> Ret(rd.s, NilToken, rd.err)
          [] rd.err = "nil" /\ rd.eof -> done(rd.s)
          [] rd.err = "nil" /\ ~rd.eof /\ rd.char = "\\" ->
                LET pk == Peek(rd.s.reader)
                    s2 == [rd.s EXCEPT !.reader = pk.reader]
                IN  IF pk.err # "nil"
                    THEN Ret(s2, NilToken, pk.err)
                    ELSE IF IsLineContinuation(pk)
                    THEN scanWhiteSpaceLoop(s2, buffer, TRUE)
                    ELSE LET u == unread(s2)
                         IN  IF u.err # "nil"
                             THEN Ret(u.s, NilToken, u.err)
                             ELSE done(u.s)
          [] rd.err = "nil" /\ ~rd.eof /\ rd.char = "\n" ->
                IF ~escape
                THEN LET u == unread(rd.s)
                     IN  IF u.err # "nil"
                         THEN Ret(u.s, NilToken, u.err)
                         ELSE done(u.s)
                ELSE scanWhiteSpaceLoop(rd.s, buffer, FALSE)
          [] rd.err = "nil" /\ ~rd.eof /\ rd.char \notin {"\\", "\n"}
                /\ ~IsSpace(rd.char) ->
                LET u == unread(rd.s)
                IN  IF u.err # "nil"
                    THEN Ret(u.s, NilToken, u.err)
                    ELSE done(u.s)
          [] OTHER -> scanWhiteSpaceLoop(rd.s, Append(buffer, rd.char), FALSE)

\* scanWhiteSpace that takes the newline that ends the run with it (no unread).
scanWhiteSpace_ConsumesNewline(s) ==
    LET consume(res) ==
            IF /\ res.token # NilToken
               /\ res.s.reader.r < Len(src.input)
               /\ src.input[res.s.reader.r + 1] = "\n"
            THEN [res EXCEPT !.s = read(res.s).s]
            ELSE res
    IN  consume(scanWhiteSpaceLoop(s, <<>>, FALSE))

scanWhiteSpace(s) == scanWhiteSpaceLoop(s, <<>>, FALSE)

RECURSIVE scanToEndOfLineLoop(_, _, _)
scanToEndOfLineLoop(s, tokenType, buffer) ==
    LET rd == read(s)
        done(s2) == Ret(s2, Token(tokenType, buffer, s2.pos, "nil"), "nil")
    IN  CASE rd.err # "nil" -> Ret(rd.s, NilToken, rd.err)
          [] rd.err = "nil" /\ rd.eof -> done(rd.s)
          [] rd.err = "nil" /\ ~rd.eof /\ rd.char = "\n" ->
                LET u == unread(rd.s)
                IN  IF u.err # "nil"
                    THEN Ret(u.s, NilToken, u.err)
                    ELSE done(u.s)
          [] OTHER -> scanToEndOfLineLoop(rd.s, tokenType, Append(buffer, rd.char))

\* scanToEndOfLine that takes the newline that ends the line with it (no unread).
scanToEndOfLine_ConsumesNewline(s, tokenType) ==
    LET consume(res) ==
            IF res.token # NilToken /\ res.s.reader.r < Len(src.input)
            THEN [res EXCEPT !.s = read(res.s).s]
            ELSE res
    IN  consume(scanToEndOfLineLoop(s, tokenType, <<>>))

scanToEndOfLine(s, tokenType) == scanToEndOfLineLoop(s, tokenType, <<>>)

scanComment(s) == scanToEndOfLine(s, "CtkComment")

scanShellCommand(s) == scanToEndOfLine(s, "CtkShellCommand")

RECURSIVE scanWordLoop(_, _)
scanWordLoop(s, buffer) ==
    LET rd == read(s)
        done(s2) == Ret(s2, Token("CtkWord", buffer, s2.pos, "nil"), "nil")
    IN  CASE rd.err # "nil" -> Ret(rd.s, NilToken, rd.err)
          [] rd.err = "nil" /\ rd.eof -> done(rd.s)
          [] rd.err = "nil" /\ ~rd.eof /\ IsSpace(rd.char) ->
                LET u == unread(rd.s)
                IN  IF u.err # "nil"
                    THEN Ret(u.s, NilToken, u.err)
                    ELSE done(u.s)
          [] OTHER -> scanWordLoop(rd.s, Append(buffer, rd.char))

\* scanWord that takes the whitespace that ends the word with it (no unread).
scanWord_ConsumesSpace(s) ==
    LET consume(res) ==
            IF res.token # NilToken /\ res.s.reader.r < Len(src.input)
            THEN [res EXCEPT !.s = read(res.s).s]
            ELSE res
    IN  consume(scanWordLoop(s, <<>>))

scanWord(s) == scanWordLoop(s, <<>>)

\* The escape switch without its case 't'.
EscapedRune_NoTab(char) ==
    CASE char = "n" -> "\n"
      [] OTHER -> char

\* The rune written for the character that follows a backslash.
EscapedRune(char) ==
    CASE char = "n" -> "\n"
      [] char = "t" -> "\t"
      [] OTHER -> char

\* The decoding loop of processStringWord over chars[i..], escape as in the code.
RECURSIVE processStringWordLoop(_, _, _, _)
processStringWordLoop(chars, i, escape, buffer) ==
    IF i > Len(chars)
    THEN buffer
    ELSE LET char == chars[i]
         IN  IF escape
             THEN processStringWordLoop(chars, i + 1, FALSE,
                      Append(buffer, EscapedRune(char)))
             ELSE IF char = "\\"
             THEN processStringWordLoop(chars, i + 1, TRUE, buffer)
             ELSE processStringWordLoop(chars, i + 1, FALSE, Append(buffer, char))

processStringWord(str) ==
    IF Len(str) < 2 \/ str[1] # "\"" \/ str[Len(str)] # "\""
    THEN [word |-> str, err |-> "Invalid string word"]
    ELSE [word |-> processStringWordLoop(SubSeq(str, 2, Len(str) - 1), 1,
                                         FALSE, <<>>),
          err |-> "nil"]

\* The end of scanStringWord with an unterminated string returned as a hard error.
scanStringWordEnd_Abort(s, buffer, closingQuoteFound) ==
    IF closingQuoteFound
    THEN Ret(s, Token("CtkWord", processStringWord(buffer).word, s.pos, "nil"), "nil")
    ELSE Ret(s, NilToken, "Unterminated string")

\* The end of scanStringWord with an Invalid token that carries no error.
scanStringWordEnd_NoTokenErr(s, buffer, closingQuoteFound) ==
    IF closingQuoteFound
    THEN Ret(s, Token("CtkWord", processStringWord(buffer).word, s.pos, "nil"), "nil")
    ELSE Ret(s, Token("CtkInvalid", buffer, s.pos, "nil"), "nil")

\* What scanStringWord returns once its loop has ended.
scanStringWordEnd(s, buffer, closingQuoteFound) ==
    IF closingQuoteFound
    THEN LET p == processStringWord(buffer)
         IN  IF p.err # "nil"
             THEN Ret(s, NilToken, p.err)
             ELSE Ret(s, Token("CtkWord", p.word, s.pos, "nil"), "nil")
    ELSE Ret(s, Token("CtkInvalid", buffer, s.pos, "Unterminated string"), "nil")

RECURSIVE scanStringWordLoop(_, _, _)
scanStringWordLoop(s, buffer, escape) ==
    LET rd == read(s)
    IN  CASE rd.err # "nil" -> Ret(rd.s, NilToken, rd.err)
          [] rd.err = "nil" /\ rd.eof -> scanStringWordEnd(rd.s, buffer, FALSE)
          [] rd.err = "nil" /\ ~rd.eof /\ rd.char = "\\" ->
                scanStringWordLoop(rd.s, Append(buffer, rd.char), ~escape)
          [] rd.err = "nil" /\ ~rd.eof /\ rd.char = "\"" ->
                IF ~escape
                THEN scanStringWordEnd(rd.s, Append(buffer, rd.char), TRUE)
                ELSE scanStringWordLoop(rd.s, Append(buffer, rd.char), FALSE)
          [] OTHER -> scanStringWordLoop(rd.s, Append(buffer, rd.char), FALSE)

scanStringWord(s) ==
    LET rd == read(s)
    IN  IF rd.err # "nil" \/ rd.eof
        THEN Ret(rd.s, NilToken, rd.err)
        ELSE scanStringWordLoop(rd.s, <<rd.char>>, FALSE)

----------------------------------------------------------------------------
(* Scan *)

\* The sub-scanner a case of Scan hands over to.
SubScan(s, sub) ==
    CASE sub = "scanWhiteSpace" -> scanWhiteSpace(s)
      [] sub = "scanComment" -> scanComment(s)
      [] sub = "scanShellCommand" -> scanShellCommand(s)
      [] sub = "scanStringWord" -> scanStringWord(s)
      [] sub = "scanWord" -> scanWord(s)

\* The dispatch with unread called a second time before the sub-scanner runs.
AfterUnread_UnreadsTwice(u, sub) ==
    IF u.err # "nil"
    THEN Ret(u.s, NilToken, u.err)
    ELSE SubScan([u.s EXCEPT !.reader = UnreadRune(u.s.reader).reader], sub)

\* The sub-scanner is called only when unread returned no error (u).
AfterUnread(u, sub) ==
    IF u.err # "nil" THEN Ret(u.s, NilToken, u.err) ELSE SubScan(u.s, sub)

\* unread, then the sub-scanner; an unread error ends the dispatch.
UnreadThen(s, sub) == AfterUnread(unread(s), sub)

\* The reclassification of a word without the "-" put back in front of it.
AsOption_NoDashPrefix(w) ==
    IF w.token # NilToken /\ w.token.tokenType # "CtkInvalid"
    THEN Ret(w.s, [w.token EXCEPT !.tokenType = "CtkOption"], w.err)
    ELSE w

\* The word scanned after "-" becomes an Option with the "-" in front.
AsOption(w) ==
    IF w.token # NilToken /\ w.token.tokenType # "CtkInvalid"
    THEN Ret(w.s, [w.token EXCEPT !.tokenType = "CtkOption",
                                  !.value = <<"-">> \o @],
             w.err)
    ELSE w

\* The case char == '-' of Scan, after the Peek (pk).
AfterPeekDash(s, pk) ==
    IF pk.err # "nil"
    THEN Ret([s EXCEPT !.reader = pk.reader], NilToken, pk.err)
    ELSE IF IsDoubleDash(pk)
    THEN AsOption(scanWord([s EXCEPT !.reader = pk.reader]))
    ELSE UnreadThen([s EXCEPT !.reader = pk.reader], "scanWord")

\* The case char == '-' of Scan.
ScanDash(s) == AfterPeekDash(s, Peek(s.reader))

\* The switch without its whitespace case: blanks fall to the default case.
SubScanFor_NoWhiteSpaceCase(char) ==
    CASE char = "#" -> "scanComment"
      [] char \in {"!", "@"} -> "scanShellCommand"
      [] char = "\"" -> "scanStringWord"
      [] OTHER -> "scanWord"

\* The sub-scanner for a first character that is none of newline, '-', EOF.
SubScanFor(char) ==
    CASE IsSpace(char) -> "scanWhiteSpace"
      [] char = "#" -> "scanComment"
      [] char \in {"!", "@"} -> "scanShellCommand"
      [] char = "\"" -> "scanStringWord"
      [] OTHER -> "scanWord"

\* The switch of Scan on the result of the first read (rd).
ScanSwitch(rd) ==
    CASE rd.err # "nil" -> Ret(rd.s, NilToken, rd.err)
      [] rd.err = "nil" /\ rd.eof ->
            Ret(rd.s, Token("CtkEOF", <<>>, rd.s.pos, "nil"), "nil")
      [] rd.err = "nil" /\ ~rd.eof /\ rd.char = "\n" ->
            Ret(rd.s, Token("CtkTerminator", <<rd.char>>, rd.s.pos, "nil"), "nil")
      [] rd.err = "nil" /\ ~rd.eof /\ rd.char = "-" -> ScanDash(rd.s)
      [] OTHER -> UnreadThen(rd.s, SubScanFor(rd.char))

\* if token != nil { token.startPos = startPos }
WithStartPos(res, startPos) ==
    IF res.token # NilToken
    THEN [res EXCEPT !.token.startPos = startPos]
    ELSE res

\* Scan with startPos captured before the first read instead of after it.
ScanResult_StartBeforeRead(s) == WithStartPos(ScanSwitch(read(s)), s.pos)

\* Scan after its first read (rd): startPos is the position after that read.
ScanFrom(rd) == WithStartPos(ScanSwitch(rd), rd.s.pos)

\* scanner.Scan(): the token and error returned, and the scanner afterwards.
ScanResult(s) == ScanFrom(read(s))

----------------------------------------------------------------------------
(* The state machine: a caller that keeps calling Scan on one scanner *)

Init ==
    /\ src \in [input : Inputs, endErr : EndErrs]
    /\ scanner = NewConfigScanner
    /\ out = <<>>
    /\ offs = <<>>

\* The reader offset when the i-th Scan call was made.
Before(i) == IF i = 1 THEN 0 ELSE offs[i - 1]

\* The Scan calls made so far with the reader already at the end of the stream.
TailCalls == {i \in 1..Len(out) : Before(i) = Len(src.input)}

\* The caller receives (token, err); the scanner keeps its new state.
Return(res) ==
    /\ scanner' = res.s
    /\ out' = Append(out, [token |-> res.token, err |-> res.err])
    /\ offs' = Append(offs, res.s.reader.r)

Scan ==
    /\ Len(out) < ScanCap
    /\ Cardinality(TailCalls) < MaxTail
    /\ Return(ScanResult(scanner))
    /\ UNCHANGED src

Next == Scan

Spec == Init /\ [][Next]_vars

----------------------------------------------------------------------------
(* Vocabulary of the properties *)

\* The number of Scan calls made so far.
Calls == Len(out)

\* The i-th Scan call returned a token (and not a nil token).
IsTok(i) == out[i].token # NilToken

\* The i-th Scan call returned a token of this kind and a nil error.
Returned(i, tokenType) ==
    out[i].token.tokenType = tokenType /\ out[i].err = "nil"

\* The input the reader had not yet consumed when the i-th call was made.
RestAt(i) == SubSeq(src.input, Before(i) + 1, Len(src.input))

\* The input the i-th call consumed, net of pushback.
Span(i) == SubSeq(src.input, Before(i) + 1, offs[i])

\* The i-th call was made on a stream that starts with these characters.
StartsWith(i, prefix) ==
    /\ Len(RestAt(i)) >= Len(prefix)
    /\ SubSeq(RestAt(i), 1, Len(prefix)) = prefix

\* The length of the longest prefix of w made of characters for which Stop is false.
PrefixLen(w, Stop(_)) ==
    IF \E k \in 1..Len(w) : Stop(w[k])
    THEN (CHOOSE k \in 1..Len(w) :
              Stop(w[k]) /\ \A j \in 1..(k - 1) : ~Stop(w[j])) - 1
    ELSE Len(w)

IsNewline(c) == c = "\n"

\* The characters of w up to the next whitespace or the end of w.
WordOf(w) == SubSeq(w, 1, PrefixLen(w, IsSpace))

\* The characters of w up to the next newline or the end of w.
LineOf(w) == SubSeq(w, 1, PrefixLen(w, IsNewline))

\* The position one character after p; a newline at p moves to the next line.
PosAfter(p, char) ==
    IF char = "\n" THEN Pos(p.line + 1, 1) ELSE Pos(p.line, p.col + 1)

----------------------------------------------------------------------------
(* C1: positions of consecutive tokens *)

\* C1 as stated: for two tokens returned by consecutive Scan calls, the second
\* token's startPos equals the first token's endPos.
C1_ContiguousWalk ==
    \A i \in 1..(Calls - 1) :
        IsTok(i) /\ IsTok(i + 1)
            => out[i + 1].token.startPos = out[i].token.endPos

\* C1 amended: startPos is the position of a token's first character and endPos
\* the position of its last one, so the second token starts one character after
\* the first token's endPos (next column, or column 1 of the next line when the
\* first token's last character is a newline); only an EOF token starts where
\* the token before it ended.
C1_NextCharacterWalk ==
    \A i \in 1..(Calls - 1) :
        IsTok(i) /\ IsTok(i + 1)
            => out[i + 1].token.startPos =
                   IF out[i + 1].token.tokenType = "CtkEOF"
                   THEN out[i].token.endPos
                   ELSE PosAfter(out[i].token.endPos, src.input[offs[i]])

\* Three tokens on two lines: a word, the newline, a word on the next line.
C1_Witness ==
    /\ Calls >= 4
    /\ \A i \in 1..4 : IsTok(i)
    /\ out[1].token.tokenType = "CtkWord"
    /\ out[2].token.tokenType = "CtkTerminator"
    /\ out[3].token.tokenType = "CtkWord"
    /\ out[3].token.startPos = Pos(2, 1)
    /\ out[4].token.tokenType = "CtkEOF"

----------------------------------------------------------------------------
(* C2: options *)

\* The i-th call met "--"; its word ends before the end of the stream, or the
\* stream ends with io.EOF (so no read of the word fails).
OptionCase(i) ==
    /\ StartsWith(i, <<"-", "-">>)
    /\ (src.endErr = "EOF" \/ Len(WordOf(RestAt(i))) < Len(RestAt(i)))

\* C2 as stated: "--" gives an Option token whose value is one "-" followed by
\* the characters after the two dashes, up to the next whitespace or the end.
C2_OneLeadingDash ==
    \A i \in 1..Calls :
        OptionCase(i)
            => /\ Returned(i, "CtkOption")
               /\ out[i].token.value = <<"-">> \o WordOf(SubSeq(RestAt(i), 3, Len(RestAt(i))))

\* C2 amended: "--" gives an Option token whose value keeps both dashes: it is
\* the input text from the first dash up to the next whitespace or the end.
C2_BothDashesKept ==
    \A i \in 1..Calls :
        OptionCase(i)
            => /\ Returned(i, "CtkOption")
               /\ out[i].token.value = WordOf(RestAt(i))
               /\ out[i].token.value = Span(i)

\* An option with a name, followed by whitespace, has been scanned.
C2_Witness ==
    /\ Calls >= 1
    /\ src.input = <<"-", "-", "x", "\t">>
    /\ out[1].token.tokenType = "CtkOption"

----------------------------------------------------------------------------
(* C3: the end of the stream *)

\* C3: once the stream is exhausted (the reader is at its end and the source
\* reports io.EOF), every further Scan call returns an EOF token and a nil error,
\* and leaves the scanner where it is.
C3_EOFForever ==
    \A i \in 1..Calls :
        Before(i) = Len(src.input) /\ src.endErr = "EOF"
            => /\ Returned(i, "CtkEOF")
               /\ out[i].token.err = "nil"
               /\ offs[i] = Len(src.input)
               /\ (i > 1 /\ IsTok(i - 1)
                       => out[i].token.endPos = out[i - 1].token.endPos)

\* Two tokens, then the EOF token twice.
C3_Witness ==
    /\ Calls = 4
    /\ Len(src.input) = 3
    /\ out[1].token.tokenType = "CtkWord"
    /\ out[2].token.tokenType = "CtkTerminator"
    /\ out[3].token.tokenType = "CtkEOF"
    /\ out[4] = out[3]

----------------------------------------------------------------------------
(* C4: a single dash *)

\* The i-th call met a '-' that no second '-' follows, on a stream none of whose
\* reads fails before the word ends.
SingleDashCase(i) ==
    /\ StartsWith(i, <<"-">>)
    /\ ~StartsWith(i, <<"-", "-">>)
    /\ (src.endErr = "EOF" \/ Len(WordOf(RestAt(i))) < Len(RestAt(i)))

\* C4: a '-' not followed by a second '-' is pushed back and Scan returns, with a
\* nil error, a Word token whose value starts with that '-' and runs up to the
\* next whitespace or the end of the stream.
C4_SingleDashIsWord ==
    \A i \in 1..Calls :
        SingleDashCase(i)
            => /\ Returned(i, "CtkWord")
               /\ out[i].token.err = "nil"
               /\ out[i].token.value = WordOf(RestAt(i))

----------------------------------------------------------------------------
(* C5: hard errors *)

\* C5: on a stream whose reads never fail, every Scan call returns a token and a
\* nil error.
C5_NoErrorWithoutIOFailure ==
    \A i \in 1..Calls :
        src.endErr = "EOF" => IsTok(i) /\ out[i].err = "nil"

----------------------------------------------------------------------------
(* C6, C7: quoted literals *)

\* The index in w of the first '"' after w[k - 1] that no backslash escapes, 0 if
\* there is none: a backslash takes the character after it with it.
RECURSIVE ClosingQuoteFrom(_, _)
ClosingQuoteFrom(w, k) ==
    IF k > Len(w) THEN 0
    ELSE IF w[k] = "\\" THEN ClosingQuoteFrom(w, k + 2)
    ELSE IF w[k] = "\"" THEN k
    ELSE ClosingQuoteFrom(w, k + 1)

\* The index of the closing quote of the literal that w[1] opens, 0 if none.
ClosingQuote(w) == ClosingQuoteFrom(w, 2)

\* The text w with each backslash pair decoded, left to right.
RECURSIVE Decoded(_)
Decoded(w) ==
    IF w = <<>> THEN <<>>
    ELSE IF w[1] = "\\" /\ Len(w) >= 2
    THEN <<IF w[2] = "n" THEN "\n" ELSE IF w[2] = "t" THEN "\t" ELSE w[2]>>
             \o Decoded(SubSeq(w, 3, Len(w)))
    ELSE <<w[1]>> \o Decoded(Tail(w))

\* C6: a literal that the end of the stream cuts short gives, with a nil
\* function-level error, an Invalid token whose value is the raw text consumed
\* (opening quote and undecoded escapes included) and whose error is
\* "Unterminated string"; the next Scan call returns the EOF token.
C6_UnterminatedString ==
    \A i \in 1..Calls :
        /\ StartsWith(i, <<"\"">>)
        /\ src.endErr = "EOF"
        /\ ClosingQuote(RestAt(i)) = 0
        => /\ Returned(i, "CtkInvalid")
           /\ out[i].token.value = RestAt(i)
           /\ out[i].token.err = "Unterminated string"
           /\ offs[i] = Len(src.input)
           /\ (i < Calls => Returned(i + 1, "CtkEOF") /\ out[i + 1].token.err = "nil")

\* An unterminated literal with an escape in it, and the call after it.
C6_Witness ==
    /\ Calls = 2
    /\ src.input = <<"\"", "a", "\\", "n">>
    /\ out[1].token.tokenType = "CtkInvalid"
    /\ out[2].token.tokenType = "CtkEOF"

\* C7: a terminated literal gives a Word token whose value is the text between
\* the opening quote and the first unescaped closing quote with each backslash
\* pair decoded (n to newline, t to tab, any other character to itself); the
\* token ends at the closing quote whatever follows it.
C7_QuotedWordDecoded ==
    \A i \in 1..Calls :
        StartsWith(i, <<"\"">>) /\ ClosingQuote(RestAt(i)) > 0
            => /\ Returned(i, "CtkWord")
               /\ out[i].token.err = "nil"
               /\ out[i].token.value =
                      Decoded(SubSeq(RestAt(i), 2, ClosingQuote(RestAt(i)) - 1))
               /\ offs[i] = Before(i) + ClosingQuote(RestAt(i))

\* A literal with the escape t, followed by a letter.
C7_Witness ==
    /\ Calls >= 2
    /\ src.input = <<"\"", "\\", "t", "\"", "a">>
    /\ out[1].token.value = <<"\t">>
    /\ out[2].token.value = <<"a">>

----------------------------------------------------------------------------
(* C8: comments and shell commands *)

\* The kind of the line token that this first character starts.
LineKind(char) == IF char = "#" THEN "CtkComment" ELSE "CtkShellCommand"

\* The i-th call met '#', '!' or '@'; the line ends with a newline, or the stream
\* ends with io.EOF (so no read of the line fails).
LineCase(i) ==
    /\ Len(RestAt(i)) >= 1
    /\ RestAt(i)[1] \in {"#", "!", "@"}
    /\ (src.endErr = "EOF" \/ Len(LineOf(RestAt(i))) < Len(RestAt(i)))

\* C8: '#' gives a Comment token, '!' and '@' a ShellCommand token, whose value
\* is the text from the trigger character up to, not including, the next newline
\* or the end of the stream, verbatim; a newline that ended it is not consumed
\* and the next Scan call returns it as a Terminator token.
C8_LineTokens ==
    \A i \in 1..Calls :
        LineCase(i)
            => /\ Returned(i, LineKind(RestAt(i)[1]))
               /\ out[i].token.value = LineOf(RestAt(i))
               /\ Span(i) = LineOf(RestAt(i))
               /\ (i < Calls /\ offs[i] < Len(src.input)
                      => /\ Returned(i + 1, "CtkTerminator")
                         /\ out[i + 1].token.value = <<"\n">>
                         /\ offs[i + 1] = offs[i] + 1)

\* A comment ended by a newline, the newline, and a shell command.
C8_Witness ==
    /\ Calls = 3
    /\ src.input = <<"#", "x", "\n", "@">>
    /\ out[1].token.tokenType = "CtkComment"
    /\ out[2].token.tokenType = "CtkTerminator"
    /\ out[3].token.tokenType = "CtkShellCommand"

----------------------------------------------------------------------------
(* C9: line continuations in whitespace *)

\* Whitespace that is no newline.
IsBlank(c) == IsSpace(c) /\ c # "\n"

\* The number of characters of w[k..] that belong to the whitespace run at w[k]:
\* blanks, and backslash-newline pairs.
RECURSIVE RunLen(_, _)
RunLen(w, k) ==
    IF k <= Len(w) /\ IsBlank(w[k]) THEN 1 + RunLen(w, k + 1)
    ELSE IF k < Len(w) /\ w[k] = "\\" /\ w[k + 1] = "\n" THEN 2 + RunLen(w, k + 2)
    ELSE 0

\* The blanks of w, in order.
RECURSIVE Blanks(_)
Blanks(w) ==
    IF w = <<>> THEN <<>>
    ELSE IF IsBlank(w[1]) THEN <<w[1]>> \o Blanks(Tail(w))
    ELSE Blanks(Tail(w))

\* The whitespace run that the i-th call meets.
RunAt(i) == SubSeq(RestAt(i), 1, RunLen(RestAt(i), 1))

\* The i-th call met a blank, and its whitespace run ends at a character other
\* than a backslash, or at the end of a stream that ends with io.EOF.
WhiteSpaceCase(i) ==
    /\ Len(RestAt(i)) >= 1
    /\ IsBlank(RestAt(i)[1])
    /\ IF Len(RunAt(i)) < Len(RestAt(i))
       THEN RestAt(i)[Len(RunAt(i)) + 1] # "\\"
       ELSE src.endErr = "EOF"

\* C9: a backslash-newline pair inside a whitespace run is consumed and kept out
\* of the value, and the run goes on after it: a WhiteSpace token consumes the
\* whole run, across every continuation, and its value is the blanks of the run.
C9_LineContinuation ==
    /\ \A i \in 1..Calls :
           WhiteSpaceCase(i)
               => /\ Returned(i, "CtkWhiteSpace")
                  /\ Span(i) = RunAt(i)
                  /\ out[i].token.value = Blanks(RunAt(i))
    /\ \A i \in 1..Calls :
           out[i].token.tokenType = "CtkWhiteSpace"
               => /\ Span(i) = RunAt(i)
                  /\ out[i].token.value = Blanks(Span(i))
    /\ src.input = <<"a", " ", "\\", "\n", "b">> /\ src.endErr = "EOF" /\ Calls >= 3
           => /\ Returned(1, "CtkWord") /\ out[1].token.value = <<"a">>
              /\ Returned(2, "CtkWhiteSpace") /\ out[2].token.value = <<" ">>
              /\ Returned(3, "CtkWord") /\ out[3].token.value = <<"b">>

\* A run with a continuation and a blank on the continued line, then a word.
C9_Witness ==
    /\ Calls = 2
    /\ src.input = <<" ", "\\", "\n", " ", "b">>
    /\ out[1].token.tokenType = "CtkWhiteSpace"
    /\ out[1].token.value = <<" ", " ">>
    /\ out[2].token.value = <<"b">>

----------------------------------------------------------------------------
(* C10: token errors *)

\* C10: a returned token carries an error if and only if its kind is Invalid.
C10_ErrorIffInvalid ==
    \A i \in 1..Calls :
        IsTok(i)
            => (out[i].token.err # "nil" <=> out[i].token.tokenType = "CtkInvalid")

\* An Invalid token and tokens of other kinds have been returned.
C10_Witness ==
    /\ Calls = 3
    /\ out[1].token.tokenType = "CtkWord"
    /\ out[2].token.tokenType = "CtkWhiteSpace"
    /\ out[3].token.tokenType = "CtkInvalid"
    /\ out[3].token.err # "nil"

----------------------------------------------------------------------------
(* C11, C12: the positions of one token *)

\* p is not after q, by line and then by column.
PosLeq(p, q) == p.line < q.line \/ (p.line = q.line /\ p.col <= q.col)

\* C11: startPos <= endPos, by (line, col), for every token returned.
C11_StartNotAfterEnd ==
    \A i \in 1..Calls :
        IsTok(i) => PosLeq(out[i].token.startPos, out[i].token.endPos)

\* A whitespace token whose first character is the first of the second line and
\* which ends on the third line.
C11_Witness ==
    /\ Calls = 2
    /\ src.input = <<"\n", " ", "\\", "\n", " ">>
    /\ out[1].token.tokenType = "CtkTerminator"
    /\ out[2].token.tokenType = "CtkWhiteSpace"
    /\ out[2].token.startPos = Pos(2, 1)
    /\ out[2].token.endPos = Pos(3, 1)

\* C12: line >= 1 and col >= 1 in startPos and endPos of every token returned;
\* the EOF token of an empty stream is at line 1, column 1.
C12_PositionsOneBased ==
    /\ \A i \in 1..Calls :
           IsTok(i)
               => /\ out[i].token.startPos.line >= 1
                  /\ out[i].token.startPos.col >= 1
                  /\ out[i].token.endPos.line >= 1
                  /\ out[i].token.endPos.col >= 1
    /\ \A i \in 1..Calls :
           src.input = <<>> /\ IsTok(i)
               => /\ out[i].token.tokenType = "CtkEOF"
                  /\ out[i].token.startPos = Pos(1, 1)
                  /\ out[i].token.endPos = Pos(1, 1)

\* The EOF token of the empty stream has been returned.
C12_Witness ==
    /\ Calls >= 1
    /\ src.input = <<>>
    /\ out[1].token.tokenType = "CtkEOF"

----------------------------------------------------------------------------
(* C13: unread inverts read *)

\* From the scanner s, a read that returns a character and the unread after it
\* give back the line, the column and lastCharLineEnd of s (and the offset).
ReadUnreadRestores(s) ==
    LET rd == read(s)
        u == unread(rd.s)
    IN  rd.err = "nil" /\ ~rd.eof
            => /\ u.err = "nil"
               /\ u.s.pos = s.pos
               /\ u.s.lastCharLineEnd = s.lastCharLineEnd
               /\ u.s.reader.r = s.reader.r

\* C13: in every scanner state in which a read returned a character, and in the
\* state every Scan call leaves behind, read followed by unread restores line,
\* col and lastCharLineEnd.
C13_UnreadInvertsRead ==
    /\ \A k \in 1..Len(scanner.reads) : ReadUnreadRestores(scanner.reads[k])
    /\ ReadUnreadRestores(Snapshot(scanner))

\* A character was read, and pushed back, across a line boundary whose line ended
\* after column 1.
C13_Witness ==
    /\ Calls = 3
    /\ src.input = <<"a", "a", "\n", "b">>
    /\ \E k \in 1..Len(scanner.reads) :
           /\ scanner.reads[k].lastCharLineEnd
           /\ scanner.reads[k].pos = Pos(1, 3)
    /\ out[3].token.startPos = Pos(2, 1)

----------------------------------------------------------------------------
(* C14: one unread per read *)

\* The calls made on the reader so far, in order.
ReaderLog == scanner.reader.log

\* Log entries of unread (UnreadRune is its first statement) and of read.
IsUnreadEntry(e) == e \in {"UnreadRune", "UnreadRune:ErrInvalidUnreadRune"}
IsReadEntry(e) == e \in {"ReadRune", "ReadRune:EOF", "ReadRune:EIO"}

\* The index of the last read or unread before the k-th call on the reader, 0 if
\* there is none.
LastReadOrUnreadBefore(k) ==
    LET js == {j \in 1..(k - 1) : IsReadEntry(ReaderLog[j]) \/ IsUnreadEntry(ReaderLog[j])}
    IN  IF js = {} THEN 0 ELSE CHOOSE j \in js : \A j2 \in js : j2 <= j

\* The reader offset after the first k calls on the reader.
OffsetAfter(k) ==
    Cardinality({j \in 1..k : ReaderLog[j] = "ReadRune"})
        - Cardinality({j \in 1..k : ReaderLog[j] = "UnreadRune"})

\* C14: every unread comes after a read that returned a character, with no other
\* unread in between: at most one unread between two reads, none after a read
\* that reported the end of the stream; so the reader is never more than one
\* character behind the furthest point it has reached.
C14_OneUnreadPerRead ==
    /\ \A k \in 1..Len(ReaderLog) :
           IsUnreadEntry(ReaderLog[k])
               => /\ LastReadOrUnreadBefore(k) > 0
                  /\ ReaderLog[LastReadOrUnreadBefore(k)] = "ReadRune"
    /\ \A k \in 0..Len(ReaderLog) : scanner.reader.r >= OffsetAfter(k) - 1
    /\ scanner.reader.r = OffsetAfter(Len(ReaderLog))

\* Five characters were pushed back in three calls, and a read has reported the
\* end of the stream.
C14_Witness ==
    /\ Calls = 4
    /\ src.input = <<"a", " ", "a">>
    /\ Cardinality({k \in 1..Len(ReaderLog) : ReaderLog[k] = "UnreadRune"}) = 5
    /\ \E k \in 1..Len(ReaderLog) : ReaderLog[k] = "ReadRune:EOF"

----------------------------------------------------------------------------
(* C15: plain words *)

\* The i-th call met a character that Scan hands to the plain-word sub-scanner
\* in its default case; the word ends before the end of the stream, or the stream
\* ends with io.EOF.
PlainWordCase(i) ==
    /\ Len(RestAt(i)) >= 1
    /\ ~IsSpace(RestAt(i)[1])
    /\ RestAt(i)[1] \notin {"#", "!", "@", "-", "\""}
    /\ (src.endErr = "EOF" \/ Len(WordOf(RestAt(i))) < Len(RestAt(i)))

\* C15: the first character alone sends a token to the plain-word sub-scanner; the
\* token is a Word whose value is not empty, holds no whitespace and is verbatim
\* the input up to the next whitespace or the end of the stream, whatever
\* characters come after the first; the whitespace that ends it is left for the
\* next Scan call.
C15_PlainWordVerbatim ==
    \A i \in 1..Calls :
        PlainWordCase(i)
            => /\ Returned(i, "CtkWord")
               /\ out[i].token.err = "nil"
               /\ out[i].token.value # <<>>
               /\ \A k \in 1..Len(out[i].token.value) : ~IsSpace(out[i].token.value[k])
               /\ out[i].token.value = WordOf(RestAt(i))
               /\ Span(i) = out[i].token.value
               /\ (offs[i] < Len(src.input) => IsSpace(src.input[offs[i] + 1]))
               /\ (i < Calls /\ offs[i] < Len(src.input) /\ src.input[offs[i] + 1] = "\n"
                      => Returned(i + 1, "CtkTerminator"))

\* A word with a comment mark and a quote inside it, and the whitespace after it.
C15_Witness ==
    /\ Calls = 2
    /\ src.input = <<"a", "#", "\"", " ">>
    /\ out[1].token.value = <<"a", "#", "\"">>
    /\ out[2].token.tokenType = "CtkWhiteSpace"

----------------------------------------------------------------------------
(* C16: a newline ends a whitespace run *)

\* The whitespace run that the i-th call meets is ended by a newline.
NewlineEndsRun(i) ==
    /\ Len(RestAt(i)) >= 1
    /\ IsBlank(RestAt(i)[1])
    /\ Len(RunAt(i)) < Len(RestAt(i))
    /\ RestAt(i)[Len(RunAt(i)) + 1] = "\n"

\* C16: a WhiteSpace token's value is not empty and holds only whitespace that
\* is no newline; a newline that no continuation backslash precedes ends the run
\* without being consumed, and the next Scan call returns it as a Terminator.
C16_NewlineEndsWhiteSpace ==
    /\ \A i \in 1..Calls :
           out[i].token.tokenType = "CtkWhiteSpace"
               => /\ out[i].token.value # <<>>
                  /\ \A k \in 1..Len(out[i].token.value) : IsBlank(out[i].token.value[k])
    /\ \A i \in 1..Calls :
           NewlineEndsRun(i)
               => /\ Returned(i, "CtkWhiteSpace")
                  /\ offs[i] = Before(i) + Len(RunAt(i))
                  /\ (i < Calls
                         => /\ Returned(i + 1, "CtkTerminator")
                            /\ offs[i + 1] = offs[i] + 1)

\* Two tabs, the newline that ends them, and a word.
C16_Witness ==
    /\ Calls = 3
    /\ src.input = <<"\t", "\t", "\n", "x">>
    /\ out[1].token.value = <<"\t", "\t">>
    /\ out[2].token.tokenType = "CtkTerminator"
    /\ out[3].token.tokenType = "CtkWord"

----------------------------------------------------------------------------
(* C17: a backslash that ends a whitespace run *)

\* The whitespace run that the i-th call meets is ended by a backslash that no
\* newline follows, on a stream that ends with io.EOF.
BackslashEndsRun(i) ==
    /\ Len(RestAt(i)) >= 1
    /\ IsBlank(RestAt(i)[1])
    /\ Len(RunAt(i)) < Len(RestAt(i))
    /\ RestAt(i)[Len(RunAt(i)) + 1] = "\\"
    /\ src.endErr = "EOF"

\* C17: a backslash inside a whitespace run that no newline follows is pushed
\* back and ends the WhiteSpace token without error; the next Scan call returns
\* a Word that starts with that backslash.
C17_BackslashPushedBack ==
    \A i \in 1..Calls :
        BackslashEndsRun(i)
            => /\ Returned(i, "CtkWhiteSpace")
               /\ Span(i) = RunAt(i)
               /\ (i < Calls
                      => /\ Returned(i + 1, "CtkWord")
                         /\ out[i + 1].token.value # <<>>
                         /\ out[i + 1].token.value[1] = "\\")

----------------------------------------------------------------------------
(* C18: progress *)

\* C18: a Scan call that returns a token other than EOF consumes at least one
\* character, net of pushback (so does a call that returns an error before the
\* end of the stream); on a stream of n characters that ends with io.EOF, every
\* call from the (n+1)-th on returns the EOF token.
C18_Progress ==
    /\ \A i \in 1..Calls :
           IsTok(i) /\ out[i].token.tokenType # "CtkEOF" => offs[i] > Before(i)
    /\ \A i \in 1..Calls :
           Before(i) < Len(src.input) => offs[i] > Before(i)
    /\ \A i \in 1..Calls :
           src.endErr = "EOF" /\ i >= Len(src.input) + 1 => Returned(i, "CtkEOF")

\* Three one-character tokens, then the EOF token at the fourth call.
C18_Witness ==
    /\ Calls = 4
    /\ src.input = <<"a", " ", "\n">>
    /\ offs = <<1, 2, 3, 3>>
    /\ out[4].token.tokenType = "CtkEOF"

----------------------------------------------------------------------------
(* C19: the precondition of UnreadRune *)

\* C19: whenever unread calls UnreadRune, the call made on the reader just before
\* it was a ReadRune that returned a character (no Peek in between).
C19_UnreadRuneAfterReadRune ==
    \A k \in 1..Len(ReaderLog) :
        IsUnreadEntry(ReaderLog[k]) => k > 1 /\ ReaderLog[k - 1] = "ReadRune"

----------------------------------------------------------------------------
(* C20: the token values give back the input *)

\* The values of the tokens returned by the first k calls, one after the other.
RECURSIVE ValuesUpTo(_)
ValuesUpTo(k) == IF k = 0 THEN <<>> ELSE ValuesUpTo(k - 1) \o out[k].token.value

\* No call so far has returned an error or an Invalid token.
NoErrorSoFar ==
    \A i \in 1..Calls : IsTok(i) /\ out[i].err = "nil" /\ out[i].token.err = "nil"

\* C20: on an input without '"' and backslash, as long as no Scan call returns an
\* error, the values of the tokens returned are, put together in order, the input
\* consumed so far; once the EOF token is returned they are the whole input.
C20_ValuesRoundTrip ==
    /\ \A k \in 1..Len(src.input) : src.input[k] \notin {"\"", "\\"}
    /\ NoErrorSoFar
    => /\ ValuesUpTo(Calls) = SubSeq(src.input, 1, scanner.reader.r)
       /\ \A i \in 1..Calls :
              out[i].token.tokenType = "CtkEOF" => ValuesUpTo(i - 1) = src.input

\* An option, a tab, a comment and the EOF token.
C20_Witness ==
    /\ Calls = 4
    /\ src.input = <<"-", "-", "\t", "#">>
    /\ NoErrorSoFar
    /\ out[1].token.tokenType = "CtkOption"
    /\ out[3].token.tokenType = "CtkComment"
    /\ out[4].token.tokenType = "CtkEOF"

=============================================================================
